---- MODULE Spec2Model ----
(***************************************************************************)
(* Mini Aaron Flight (src/src/main.c): the frame loop of main(), the       *)
(* obstacle store (obs / obsCount / addObstacle) and the collision test    *)
(* hit().                                                                  *)
(*                                                                         *)
(* The C floats are held as integers in fixed units, chosen so that the    *)
(* arithmetic of the program is exact for the frame times of DtChoices     *)
(* (all multiples of 25 ms):                                               *)
(*   difficulty          in 1/DU        (DU = 100000)                      *)
(*   spawnMs, spawnTimer in 1/MU ms     (MU = 1000)                        *)
(*   vy, dt              in 1/VU        (VU = 166667, from 16.6667f)       *)
(*   py, obstacle y, h   in 1/YU        (YU = 5*VU, so vy*3.2f is vy*16)   *)
(*   obstacle x, w, px   in 1/XU        (XU = 1000000)                     *)
(*   worldSpeed, o.speed in 16/(5*XU)   (so speed*3.2f is the same integer *)
(*                                       in the units of x)                *)
(*   kmLeft              in 1/KU        (KU = 1000)                        *)
(* Only prog and t of the progress curve are rounded (down, to 1/1000),    *)
(* where the C code rounds to the nearest float.                           *)
(***************************************************************************)
EXTENDS Integers, Sequences, FiniteSets

VARIABLES py, vy, holding, running, victory, gameOver,
          kmLeft, difficulty, spawnMs, spawnTimer,
          obs, obsCount,
          pc,            \* "poll": inside while (running); "done": loop left
          frames,        \* number of frames run so far
          last,          \* the step taken last: "restart" (SDLK_RETURN, taken), "ignored"
                         \* (SDLK_RETURN, not taken), "frozen" (a frame whose tick body
                         \* was skipped) or "other"
          preCull,       \* obs[0..obsCount-1] as the cull loop of the session's last
                         \* tick found it
          twin           \* PairSpec: the session of a second run of the program that
                         \* gets the same events and frame times

vars == <<py, vy, holding, running, victory, gameOver, kmLeft, difficulty,
          spawnMs, spawnTimer, obs, obsCount, pc, frames, last, preCull, twin>>

----------------------------------------------------------------------------
(* Bounds of the model *)

MaxFrames == 4

\* now - last of a frame, in ms
DtChoices == {25, 600, 90000}

\* FlightSpec: longer runs of 50 ms frames, after a first frame that may stall
FlightFrames == 13
FlightDt == {50}
StallDt == {90000}

\* the values of rand() the model draws in addObstacle
CloudWChoices == {79}
CloudHChoices == {0}
CloudYChoices == {200}
BirdYChoices == {0, 150}
StormHChoices == {119}
StormTopChoices == {TRUE}
JitterChoices == {0}

----------------------------------------------------------------------------
(* Units *)

DU == 100000
MU == 1000
VU == 166667
YU == 833335
XU == 1000000
KU == 1000

(* Program constants *)

W == 960
H == 540
GROUND_Y == 460
KM_TOTAL == 12000 * KU
OBS_CAP == 128

gravity == 38      \* 0.38f, in 1/100
thrust == 80       \* 0.8f, in 1/100
maxVy == 7 * VU
px == (W * 22) * (XU \div 100)
PY_INIT == (H * YU) \div 2
PY_MIN == 60 * YU
PY_MAX == (GROUND_Y - 20) * YU
SPAWN_INIT == 1100 * MU
SPAWN_FLOOR == 580 * MU
DT_CLAMP == 48

Min(a, b) == IF a < b THEN a ELSE b
Max(a, b) == IF a > b THEN a ELSE b

----------------------------------------------------------------------------
(* addObstacle *)

Draws ==
  [kind : {"cloud"}, a : CloudWChoices, b : CloudHChoices, c : CloudYChoices,
   top : {TRUE}, j : JitterChoices]
  \cup [kind : {"bird"}, a : {0}, b : {0}, c : BirdYChoices,
        top : {TRUE}, j : JitterChoices]
  \cup [kind : {"storm"}, a : {0}, b : StormHChoices, c : {0},
        top : StormTopChoices, j : JitterChoices]

\* the Obstacle addObstacle builds from its rand() draws d
NewObstacle(speed, d) ==
  LET ox == (W + 40 + d.j) * XU
  IN  IF d.kind = "cloud"
      THEN [type |-> 0, w |-> (90 + d.a) * XU, h |-> (50 + d.b) * YU,
            y |-> (60 + d.c) * YU, speed |-> speed, x |-> ox]
      ELSE IF d.kind = "bird"
      THEN [type |-> 1, w |-> 44 * XU, h |-> 28 * YU,
            y |-> (100 + d.c) * YU, speed |-> (speed \div 20) * 27, x |-> ox]
      ELSE [type |-> 2, w |-> 50 * XU, h |-> (120 + d.b) * YU,
            y |-> IF d.top THEN 40 * YU ELSE (GROUND_Y - (120 + d.b)) * YU,
            speed |-> (speed \div 10) * 11, x |-> ox]

addObstaclePastEnd(store, count, speed, d) ==
  IF count > OBS_CAP
  THEN [obs |-> store, obsCount |-> count]
  ELSE [obs |-> Append(store, NewObstacle(speed, d)), obsCount |-> count + 1]

\* the store <<obs, obsCount>> after addObstacle(speed)
addObstacle(store, count, speed, d) ==
  IF count >= OBS_CAP
  THEN [obs |-> store, obsCount |-> count]
  ELSE [obs |-> Append(store, NewObstacle(speed, d)), obsCount |-> count + 1]

----------------------------------------------------------------------------
(* hit *)

\* shrink = 0.8f, as 8/10; each axis in its own unit
hit(ax, ay, aw, ah, b) ==
  LET aox == ax - (aw * (10 - 8)) \div 20
      aoy == ay - (ah * (10 - 8)) \div 20
      aow == (aw * 8) \div 10
      aoh == (ah * 8) \div 10
  IN  /\ aox < b.x + b.w
      /\ aox + aow > b.x
      /\ aoy < b.y + b.h
      /\ aoy + aoh > b.y

CollidesFirstOnly(y, store) ==
  Len(store) > 0 /\ hit(px - 30 * XU, y - 18 * YU, 60 * XU, 36 * YU, store[1])

\* line 138: some stored obstacle hits the player box
Collides(y, store) ==
  \E i \in 1..Len(store) : hit(px - 30 * XU, y - 18 * YU, 60 * XU, 36 * YU, store[i])

----------------------------------------------------------------------------
(* The steps of an active tick *)

\* dt of line 113, in 1/VU
FrameDt(dtms) == Min(DT_CLAMP, dtms) * 10000

Difficulty(d, dtms) == d + 45 * dtms

WorldSpeed(d) == 13440000 + ((d - DU) \div 25) * 1176

SpawnMsNoFloor(d) == SPAWN_INIT - ((d - DU) * 16) \div 10

SpawnMs(d) == Max(SPAWN_FLOOR, SPAWN_INIT - ((d - DU) * 16) \div 10)

ClampVyUpperOnly(v) == IF v > maxVy THEN maxVy ELSE v

\* lines 124-125
ClampVy(v) == IF v > maxVy THEN maxVy ELSE IF v < -maxVy THEN -maxVy ELSE v

Velocity(v, hold, dt) ==
  LET v1 == v + (gravity * dt) \div 100
      v2 == IF hold THEN v1 - (thrust * dt) \div 100 ELSE v1
  IN  ClampVy(v2)

ClampPyFloorOnly(y) == IF y < PY_MIN THEN PY_MIN ELSE y

\* lines 127-128
ClampPy(y) == IF y < PY_MIN THEN PY_MIN ELSE IF y > PY_MAX THEN PY_MAX ELSE y

Position(y, v) == ClampPy(y + v * 16)

AdvanceSkipsNewest(store) ==
  [i \in 1..Len(store) |->
     IF i = Len(store) THEN store[i] ELSE [store[i] EXCEPT !.x = @ - store[i].speed]]

\* line 133; o.speed carries the factor 3.2
Advance(store) == [i \in 1..Len(store) |-> [store[i] EXCEPT !.x = @ - store[i].speed]]

KeepAlways(o) == TRUE

\* the test of line 135
Keep(o) == o.x + o.w > -10 * XU

CullSkipsLast(store) == SelectSeq(SubSeq(store, 1, Len(store) - 1), Keep)

\* the compaction loop of lines 135-136
Cull(store) == SelectSeq(store, Keep)

KmStepNoStartSpd(km, dtms) ==
  LET prog == (KM_TOTAL - km) \div (KM_TOTAL \div 1000)
      t == (((prog * prog) \div 1000) * (3000 - 2 * prog)) \div 1000
      kmPerSec == 40 * t
  IN  ((kmPerSec \div 40) * dtms) \div 25

KmStepAdds(km, dtms) ==
  LET prog == (KM_TOTAL - km) \div (KM_TOTAL \div 1000)
      t == (((prog * prog) \div 1000) * (3000 - 2 * prog)) \div 1000
      kmPerSec == 120000 + 40 * t
  IN  -(((kmPerSec \div 40) * dtms) \div 25)

\* kmPerSec * dts of lines 140-144, in 1/KU
KmStep(km, dtms) ==
  LET prog == (KM_TOTAL - km) \div (KM_TOTAL \div 1000)
      t == (((prog * prog) \div 1000) * (3000 - 2 * prog)) \div 1000
      kmPerSec == 120000 + 40 * t
  IN  ((kmPerSec \div 40) * dtms) \div 25

----------------------------------------------------------------------------
(* The frame loop *)

\* the session of lines 81-88
Fresh ==
  [py |-> PY_INIT, vy |-> 0, kmLeft |-> KM_TOTAL, difficulty |-> DU,
   spawnMs |-> SPAWN_INIT, spawnTimer |-> 0, obs |-> <<>>, obsCount |-> 0,
   gameOver |-> FALSE, victory |-> FALSE, preCull |-> <<>>]

Init ==
  /\ py = PY_INIT /\ vy = 0
  /\ holding = FALSE /\ running = TRUE /\ victory = FALSE /\ gameOver = FALSE
  /\ kmLeft = KM_TOTAL
  /\ difficulty = DU
  /\ spawnMs = SPAWN_INIT /\ spawnTimer = 0
  /\ obs = <<>> /\ obsCount = 0
  /\ pc = "poll" /\ frames = 0 /\ last = "other"
  /\ preCull = <<>>
  /\ twin = Fresh

\* SDL_QUIT
Quit ==
  /\ pc = "poll"
  /\ running' = FALSE
  /\ last' = "other"
  /\ UNCHANGED <<py, vy, holding, victory, gameOver, kmLeft, difficulty, spawnMs,
                 spawnTimer, obs, obsCount, pc, frames, preCull, twin>>

\* SDL_KEYDOWN of SDLK_SPACE / SDLK_UP, SDL_MOUSEBUTTONDOWN
ThrustDown ==
  /\ pc = "poll"
  /\ holding' = TRUE
  /\ last' = "other"
  /\ UNCHANGED <<py, vy, running, victory, gameOver, kmLeft, difficulty, spawnMs,
                 spawnTimer, obs, obsCount, pc, frames, preCull, twin>>

\* SDL_KEYUP of SDLK_SPACE / SDLK_UP, SDL_MOUSEBUTTONUP
ThrustUp ==
  /\ pc = "poll"
  /\ holding' = FALSE
  /\ last' = "other"
  /\ UNCHANGED <<py, vy, running, victory, gameOver, kmLeft, difficulty, spawnMs,
                 spawnTimer, obs, obsCount, pc, frames, preCull, twin>>

RestartCrashedOnly(over, won) == over

RestartAlways(over, won) == TRUE

\* the guard of line 98
RestartAccepted(over, won) == over \/ won

\* SDL_KEYDOWN of SDLK_RETURN
Restart ==
  /\ pc = "poll"
  /\ IF RestartAccepted(gameOver, victory)
     THEN /\ last' = "restart"
          /\ obsCount' = 0 /\ obs' = <<>>
          /\ py' = PY_INIT /\ vy' = 0 /\ kmLeft' = KM_TOTAL
          /\ difficulty' = DU /\ spawnMs' = SPAWN_INIT /\ spawnTimer' = 0
          /\ victory' = FALSE /\ gameOver' = FALSE
          /\ preCull' = <<>>
     ELSE /\ last' = "ignored"
          /\ UNCHANGED <<obsCount, obs, py, vy, kmLeft, difficulty, spawnMs, spawnTimer,
                         victory, gameOver, preCull>>
  /\ UNCHANGED <<holding, running, pc, frames, twin>>

TickAlways(over, won) == TRUE

\* the guard of line 117
TickRuns(over, won) == ~over /\ ~won

\* kmLeft <= 0 of line 145
Arrived(km) == km <= 0

ClampKmNone(km) == km

\* kmLeft = 0 of line 145
ClampKm(km) == IF Arrived(km) THEN 0 ELSE km

SpawnDueInitial(timer, ms) == timer >= SPAWN_INIT

\* spawnTimer >= spawnMs of line 131
SpawnDue(timer, ms) == timer >= ms

\* the session's variables as one record
Session ==
  [py |-> py, vy |-> vy, kmLeft |-> kmLeft, difficulty |-> difficulty,
   spawnMs |-> spawnMs, spawnTimer |-> spawnTimer, obs |-> obs, obsCount |-> obsCount,
   gameOver |-> gameOver, victory |-> victory, preCull |-> preCull]

Birds(store) == Cardinality({i \in 1..Len(store) : store[i].type = 1})

TickBodyFeedback(s, hold, dtms, d) ==
  LET dt == FrameDt(dtms)
      difficulty1 == Difficulty(s.difficulty, dtms * (1 + Birds(s.obs)))
      worldSpeed == WorldSpeed(difficulty1)
      spawnMs1 == SpawnMs(difficulty1)
      vy1 == Velocity(s.vy, hold, dt)
      py1 == Position(s.py, vy1)
      timer1 == s.spawnTimer + dtms * MU
      fire == SpawnDue(timer1, spawnMs1)
      st == IF fire THEN addObstacle(s.obs, s.obsCount, worldSpeed, d)
            ELSE [obs |-> s.obs, obsCount |-> s.obsCount]
      moved == Advance(st.obs)
      kept == Cull(moved)
      km1 == s.kmLeft - KmStep(s.kmLeft, dtms)
  IN  [py |-> py1, vy |-> vy1, kmLeft |-> ClampKm(km1), difficulty |-> difficulty1,
       spawnMs |-> spawnMs1, spawnTimer |-> IF fire THEN 0 ELSE timer1,
       obs |-> kept, obsCount |-> Len(kept),
       gameOver |-> Collides(py1, kept), victory |-> Arrived(km1),
       preCull |-> moved]

\* lines 118-145: the session s after the body of an active tick of dtms ms
\* with the thrust flag hold and the rand() draws d
TickBody(s, hold, dtms, d) ==
  LET dt == FrameDt(dtms)
      difficulty1 == Difficulty(s.difficulty, dtms)
      worldSpeed == WorldSpeed(difficulty1)
      spawnMs1 == SpawnMs(difficulty1)
      vy1 == Velocity(s.vy, hold, dt)
      py1 == Position(s.py, vy1)
      timer1 == s.spawnTimer + dtms * MU
      fire == SpawnDue(timer1, spawnMs1)
      st == IF fire THEN addObstacle(s.obs, s.obsCount, worldSpeed, d)
            ELSE [obs |-> s.obs, obsCount |-> s.obsCount]
      moved == Advance(st.obs)
      kept == Cull(moved)
      km1 == s.kmLeft - KmStep(s.kmLeft, dtms)
  IN  [py |-> py1, vy |-> vy1, kmLeft |-> ClampKm(km1), difficulty |-> difficulty1,
       spawnMs |-> spawnMs1, spawnTimer |-> IF fire THEN 0 ELSE timer1,
       obs |-> kept, obsCount |-> Len(kept),
       gameOver |-> Collides(py1, kept), victory |-> Arrived(km1),
       preCull |-> moved]

LoopAlways(run) == TRUE

\* while (running) of line 92
LoopContinues(run) == run

\* lines 111-146 and the loop test of line 92, on the session's variables: the
\* event queue is empty
Frame(dtms, d) ==
  /\ pc = "poll"
  /\ pc' = IF LoopContinues(running) THEN "poll" ELSE "done"
  /\ last' = IF TickRuns(gameOver, victory) THEN "other" ELSE "frozen"
  /\ UNCHANGED <<holding, running>>
  /\ IF TickRuns(gameOver, victory)
     THEN LET s == TickBody(Session, holding, dtms, d)
          IN  /\ difficulty' = s.difficulty
              /\ spawnMs' = s.spawnMs
              /\ vy' = s.vy
              /\ py' = s.py
              /\ spawnTimer' = s.spawnTimer
              /\ preCull' = s.preCull
              /\ obs' = s.obs
              /\ obsCount' = s.obsCount
              /\ gameOver' = s.gameOver
              /\ kmLeft' = s.kmLeft
              /\ victory' = s.victory
     ELSE UNCHANGED <<difficulty, spawnMs, vy, py, spawnTimer, preCull, obs, obsCount,
                      gameOver, kmLeft, victory>>

\* one frame of a run of at most limit frames
Tick(dtms, d, limit) ==
  /\ frames < limit
  /\ frames' = frames + 1
  /\ Frame(dtms, d)
  /\ UNCHANGED twin

Next ==
  \/ Quit
  \/ ThrustDown
  \/ ThrustUp
  \/ Restart
  \/ \E dtms \in DtChoices, d \in Draws : Tick(dtms, d, MaxFrames)

Spec == Init /\ [][Next]_vars

\* the same loop run longer: frames of FlightDt ms after a first frame of
\* FlightDt or StallDt ms
FlightNext ==
  \/ ThrustDown
  \/ ThrustUp
  \/ Restart
  \/ \E dtms \in (IF frames = 0 THEN FlightDt \cup StallDt ELSE FlightDt), d \in Draws :
        Tick(dtms, d, FlightFrames)

FlightSpec == Init /\ [][FlightNext]_vars

----------------------------------------------------------------------------
(* Two runs of the program side by side: both start fresh and get the same  *)
(* thrust events and the same frame times, and each draws its own rand().   *)

PairFrames == 3
PairDt == {600, 90000}

PairTick(dtms, d1, d2) ==
  /\ frames < PairFrames
  /\ frames' = frames + 1
  /\ Frame(dtms, d1)
  /\ twin' = IF TickRuns(twin.gameOver, twin.victory)
             THEN TickBody(twin, holding, dtms, d2)
             ELSE twin

PairNext ==
  \/ ThrustDown
  \/ ThrustUp
  \/ \E dtms \in PairDt, d1 \in Draws, d2 \in Draws : PairTick(dtms, d1, d2)

PairSpec == Init /\ [][PairNext]_vars

----------------------------------------------------------------------------
(* The loop with no frame count and no SDL_QUIT: frames keep coming, some   *)
(* with no elapsed time, and frames with elapsed time recur.                *)

LiveDt == {0, 90000}

\* a cloud at the player's height and a bird above it
LiveDraws == {d \in Draws : d.kind = "cloud" \/ (d.kind = "bird" /\ d.c = 0)}

LiveTick(dtms, d) ==
  /\ Frame(dtms, d)
  /\ UNCHANGED <<frames, twin>>

TimePasses == \E dtms \in LiveDt \ {0}, d \in LiveDraws : LiveTick(dtms, d)

NoTimePasses == \E d \in LiveDraws : LiveTick(0, d)

LiveNext ==
  \/ ThrustDown
  \/ ThrustUp
  \/ Restart
  \/ NoTimePasses
  \/ TimePasses

LiveSpec == Init /\ [][LiveNext]_vars /\ WF_vars(TimePasses)

----------------------------------------------------------------------------
(* A crowded sky: every frame lasts just long enough for the spawn to fall  *)
(* due, and every obstacle is the slowest, widest and farthest one: a cloud *)
(* of width 169 at x = 1119, high above the player.                         *)

CrowdFrames == 150
CrowdDt == {25 * k : k \in 24..44}
CrowdDraws ==
  [kind : {"cloud"}, a : {79}, b : {0}, c : {0}, top : {TRUE}, j : {119}]

\* the test of line 131 after a frame of dtms ms
DueAfter(timer, d, dtms) ==
  SpawnDue(timer + dtms * MU, SpawnMs(Difficulty(d, dtms)))

LeastDue(timer, d) ==
  CHOOSE dtms \in CrowdDt :
    /\ DueAfter(timer, d, dtms)
    /\ \A e \in CrowdDt : e < dtms => ~DueAfter(timer, d, e)

CrowdTick ==
  \E dtms \in CrowdDt, d \in CrowdDraws :
    /\ dtms = LeastDue(spawnTimer, difficulty)
    /\ Tick(dtms, d, CrowdFrames)

CrowdNext ==
  \/ Restart
  \/ CrowdTick

CrowdSpec == Init /\ [][CrowdNext]_vars

----------------------------------------------------------------------------
(* The collision test of line 138 on its own: a player anywhere in its band *)
(* and one obstacle of addObstacle anywhere on its way across the screen.   *)

HitPyChoices == {60, 250, 270, 440}
HitXChoices == {120, 131, 132, 143, 144, 180, 223, 224, 235, 236}

CollisionTest ==
  /\ pc = "poll"
  /\ frames = 0
  /\ frames' = 1
  /\ gameOver' = Collides(py, obs)
  /\ UNCHANGED <<py, vy, holding, running, victory, kmLeft, difficulty, spawnMs,
                 spawnTimer, obs, obsCount, pc, last, preCull, twin>>

HitInit ==
  /\ \E y \in HitPyChoices : py = y * YU
  /\ \E d \in Draws, x \in HitXChoices :
       obs = <<[NewObstacle(WorldSpeed(DU), d) EXCEPT !.x = x * XU]>>
  /\ obsCount = 1
  /\ vy = 0
  /\ holding = FALSE /\ running = TRUE /\ victory = FALSE /\ gameOver = FALSE
  /\ kmLeft = KM_TOTAL
  /\ difficulty = DU
  /\ spawnMs = SPAWN_INIT /\ spawnTimer = 0
  /\ pc = "poll" /\ frames = 0 /\ last = "other"
  /\ preCull = <<>>
  /\ twin = Fresh

HitNext == CollisionTest

HitSpec == HitInit /\ [][HitNext]_vars

----------------------------------------------------------------------------
(* addObstacle on its own, on a store of any fill up to its capacity.       *)

StoreCalls == 2

SpawnCall(d) ==
  /\ pc = "poll"
  /\ frames < StoreCalls
  /\ frames' = frames + 1
  /\ LET st == addObstacle(obs, obsCount, WorldSpeed(difficulty), d)
     IN  /\ obs' = st.obs
         /\ obsCount' = st.obsCount
  /\ UNCHANGED <<py, vy, holding, running, victory, gameOver, kmLeft, difficulty,
                 spawnMs, spawnTimer, pc, last, preCull, twin>>

StoreInit ==
  /\ \E n \in 0..OBS_CAP, d \in Draws :
       /\ obs = [i \in 1..n |-> NewObstacle(WorldSpeed(DU), d)]
       /\ obsCount = n
  /\ py = PY_INIT /\ vy = 0
  /\ holding = FALSE /\ running = TRUE /\ victory = FALSE /\ gameOver = FALSE
  /\ kmLeft = KM_TOTAL
  /\ difficulty = DU
  /\ spawnMs = SPAWN_INIT /\ spawnTimer = 0
  /\ pc = "poll" /\ frames = 0 /\ last = "other"
  /\ preCull = <<>>
  /\ twin = Fresh

StoreNext == \E d \in Draws : SpawnCall(d)

StoreSpec == StoreInit /\ [][StoreNext]_vars

----------------------------------------------------------------------------
(* Session states *)

Active == ~gameOver /\ ~victory

\* C1: the crashed flag and the completed flag are never both set, and a
\* session that is Crashed does not become Completed, nor a Completed one
\* Crashed, in a step that is not a restart.
C1_OneSessionState ==
  /\ [](~(gameOver /\ victory))
  /\ [][/\ (gameOver /\ ~victory /\ last' # "restart") => ~victory'
        /\ (victory /\ ~gameOver /\ last' # "restart") => ~gameOver']_vars

\* C2: an active tick advances the simulation by at most 48 ms: difficulty by
\* at most 0.00045*48, the spawn timer by at most 48 ms, the remaining
\* distance by at most 160*0.048, and the velocity by at most 48/16.6667 frame
\* units of gravity (downwards) or of thrust less gravity (upwards).
C2_StepWithinClamp ==
  [][(Active /\ frames' = frames + 1) =>
       /\ difficulty' - difficulty <= 45 * 48
       /\ (spawnTimer' # 0 => spawnTimer' - spawnTimer <= 48 * MU)
       /\ kmLeft - kmLeft' <= (160 * 48 * KU) \div 1000
       /\ vy' - vy <= 38 * 48 * 100
       /\ vy - vy' <= (80 - 38) * 48 * 100]_vars

\* the overlap test on the box of 0.8*aw by 0.8*ah centred in (ax, ay, aw, ah)
CentredOverlap(ax, ay, aw, ah, b) ==
  LET left == ax + aw \div 10
      top == ay + ah \div 10
  IN  /\ left < b.x + b.w
      /\ left + (aw * 8) \div 10 > b.x
      /\ top < b.y + b.h
      /\ top + (ah * 8) \div 10 > b.y

\* C3: hit returns true exactly when the player box shrunk to 0.8 of its size
\* about its centre strictly overlaps the obstacle box on both axes.
C3_HitIsCentredOverlap ==
  frames = 1 =>
    (gameOver <=> CentredOverlap(px - 30 * XU, py - 18 * YU, 60 * XU, 36 * YU, obs[1]))

\* C4: a Restart event in a Crashed or Completed session (or one with both
\* flags set) is taken, and leaves the session Active with remaining distance
\* 12000, difficulty 1.0, spawn interval 1100, spawn timer 0, an empty store,
\* the player at 270 and velocity 0.
C4_RestartResets ==
  [][((gameOver \/ victory) /\ last' \in {"restart", "ignored"}) =>
       /\ last' = "restart"
       /\ ~gameOver' /\ ~victory'
       /\ kmLeft' = 12000 * KU
       /\ difficulty' = DU
       /\ spawnMs' = 1100 * MU
       /\ spawnTimer' = 0
       /\ obsCount' = 0 /\ obs' = <<>>
       /\ py' = 270 * YU
       /\ vy' = 0]_vars

\* a session that was restarted after it ended
C4_Witness ==
  /\ last = "restart"
  /\ frames > 0
  /\ Active
  /\ obsCount = 0
  /\ kmLeft = 12000 * KU

\* C5: a Restart event in an Active session changes none of player position,
\* velocity, remaining distance, difficulty, spawn interval, spawn timer,
\* obstacle store and session state.
C5_RestartIgnoredWhenActive ==
  [][(Active /\ last' \in {"restart", "ignored"}) =>
       UNCHANGED <<py, vy, kmLeft, difficulty, spawnMs, spawnTimer, obs, obsCount,
                   gameOver, victory>>]_vars

\* a Restart event ignored in a session under way, with an obstacle in the store
C5_Witness ==
  /\ last = "ignored"
  /\ Active
  /\ kmLeft < 12000 * KU
  /\ obsCount > 0

\* C6: in a session that is not Active, frames and thrust events (every step
\* but a Restart event) leave player position, velocity, the obstacles and
\* their count, remaining distance, difficulty and spawn timer unchanged.
C6_FrozenWhenNotActive ==
  [][(~Active /\ last' # "restart") =>
       UNCHANGED <<py, vy, obs, obsCount, kmLeft, difficulty, spawnTimer>>]_vars

\* a frame run in a Crashed session with thrust held and obstacles in the store
C6_Witness ==
  /\ last = "frozen"
  /\ gameOver
  /\ holding
  /\ obsCount > 0

\* C7: the player's vertical position is within [60, 440] in every state.
C7_PositionInBand == 60 * YU <= py /\ py <= 440 * YU

\* the player has fallen to the lower edge of the band, still moving down
C7_Witness == py = 440 * YU /\ vy > 0 /\ frames > 0

\* C8: the player's vertical velocity is within [-7, +7] in every state.
C8_VelocityInBand == -7 * VU <= vy /\ vy <= 7 * VU

\* thrust held until the velocity is cut off at -7
C8_Witness == vy = -7 * VU /\ holding

\* the number of entries of store equal to o
Count(store, o) == Cardinality({i \in 1..Len(store) : store[i] = o})

\* C9: the store holds between 0 and 128 obstacles, and a spawn on a store of
\* 128 leaves the obstacles and their count as they were.
C9_StoreWithinCapacity ==
  /\ [](0 <= obsCount /\ obsCount <= 128 /\ Len(obs) = obsCount)
  /\ [][(obsCount = 128 /\ frames' = frames + 1) =>
          (obs' = obs /\ obsCount' = obsCount)]_vars

\* two spawns were called and the store is full: the second found it full
C9_Witness == obsCount = 128 /\ frames = 2

\* C10: after the cull of a tick the store holds each obstacle that had
\* x + w > -10 before the cull as often as the store held it then, and no
\* other; so every stored obstacle has x + w > -10.
C10_CullExact ==
  /\ \A i \in 1..Len(preCull) :
       Count(obs, preCull[i]) =
         IF preCull[i].x + preCull[i].w > -10 * XU THEN Count(preCull, preCull[i]) ELSE 0
  /\ \A i \in 1..Len(obs) :
       /\ obs[i].x + obs[i].w > -10 * XU
       /\ Count(preCull, obs[i]) = Count(obs, obs[i])
  /\ obsCount = Len(obs)

\* a tick culled one obstacle and kept another
C10_Witness ==
  /\ Len(preCull) > obsCount
  /\ obsCount > 0
  /\ \E i \in 1..Len(preCull) : preCull[i].x + preCull[i].w <= -10 * XU

\* C11: from one state of an Active session to the next the distance covered,
\* TOTAL - remaining (the numerator of the progress fraction), does not
\* decrease, and in a Completed session it is TOTAL: the fraction is 1.
C11_ProgressMonotone ==
  /\ [](victory => KM_TOTAL - kmLeft = 12000 * KU)
  /\ [][(Active /\ last' # "restart") => KM_TOTAL - kmLeft' >= KM_TOTAL - kmLeft]_vars

\* a session Completed after a frame that did not complete it
C11_Witness == victory /\ kmLeft = 0 /\ frames >= 2 /\ difficulty > DU + 45 * 90000

\* C12 as claimed: the spawn interval is at least 580 ms and no step increases it.
C12_IntervalNeverIncreases ==
  /\ [](spawnMs >= 580 * MU)
  /\ [][spawnMs' <= spawnMs]_vars

\* C12 as amended: the spawn interval is at least 580 ms and no step but a
\* Restart event that is taken increases it.
C12_IntervalMonotoneInSession ==
  /\ [](spawnMs >= 580 * MU)
  /\ [][last' # "restart" => spawnMs' <= spawnMs]_vars

\* the interval has come down to its floor in a session under way
C12_Witness == spawnMs = 580 * MU /\ Active /\ difficulty > DU + 45 * 90000

TwinActive == ~twin.gameOver /\ ~twin.victory

\* C13: two runs that start fresh and get the same thrust events and frame
\* times have the same player position, velocity, difficulty and remaining
\* distance for as long as both sessions are Active, whatever obstacles each
\* run draws.
C13_TrajectoryDeterministic ==
  (Active /\ TwinActive) =>
    /\ py = twin.py
    /\ vy = twin.vy
    /\ difficulty = twin.difficulty
    /\ kmLeft = twin.kmLeft

\* both runs are under way with different obstacles in their stores
C13_Witness ==
  /\ Active /\ TwinActive
  /\ frames >= 3
  /\ obsCount > 0 /\ twin.obsCount > 0
  /\ \A i \in 1..obsCount : \A j \in 1..twin.obsCount : obs[i].type # twin.obs[j].type

\* the stored obstacles that overlap the player box at the current position
Overlapping ==
  {i \in 1..obsCount : hit(px - 30 * XU, py - 18 * YU, 60 * XU, 36 * YU, obs[i])}

\* C14: the session is Crashed exactly when some obstacle left in the store by
\* the cull, where the advance put it, overlaps the player box at the position
\* the physics update gave the player; an active tick that ends with no such
\* overlap leaves the session not Crashed.
C14_CrashedIffOverlap ==
  /\ [](gameOver <=> Overlapping # {})
  /\ [][(Active /\ last' = "other" /\ frames' = frames + 1) =>
          (gameOver' <=> \E i \in 1..Len(obs') :
             /\ Keep(obs'[i])
             /\ hit(px - 30 * XU, py' - 18 * YU, 60 * XU, 36 * YU, obs'[i]))]_vars

\* a crash on an obstacle that is not the oldest in the store
C14_Witness == gameOver /\ obsCount >= 2 /\ 1 \notin Overlapping


\* C15: the remaining distance is always within [0, 12000], and it is exactly
\* 0 if and only if the completed flag is set; a tick that brings it to 0 or
\* below leaves it at 0 with the flag set.
C15_RemainingInRange ==
  /\ kmLeft >= 0
  /\ kmLeft <= 12000 * KU
  /\ (kmLeft = 0 <=> victory)

\* Completed by a tick that overshot the destination
C15_Witness ==
  /\ victory /\ kmLeft = 0
  /\ frames >= 1
  /\ difficulty >= DU + 45 * 90000


\* C16: an active tick adds an obstacle exactly when the spawn timer plus the
\* elapsed milliseconds reaches the spawn interval computed in that tick, and
\* then adds one obstacle only and leaves the timer at 0; otherwise the timer
\* grows by the elapsed milliseconds. After every tick the timer is at least 0
\* and below the spawn interval.
C16_SpawnWhenDue ==
  /\ [](0 <= spawnTimer /\ spawnTimer < spawnMs)
  /\ [][(Active /\ frames' = frames + 1) =>
          LET dtms == (difficulty' - difficulty) \div 45
              due == spawnTimer + dtms * MU >= spawnMs'
          IN  /\ Len(preCull') = obsCount + (IF due THEN 1 ELSE 0)
              /\ obsCount' <= obsCount + 1
              /\ spawnTimer' = IF due THEN 0 ELSE spawnTimer + dtms * MU]_vars

\* one obstacle and a timer at 0 after a frame of 90 s
C16_Witness ==
  /\ Active /\ frames = 1
  /\ difficulty = DU + 45 * 90000
  /\ spawnTimer = 0 /\ Len(preCull) = 1


\* worldSpeed times the multiplier of the obstacle's kind: 1.0, 1.35, 1.1
SpeedOfKind(o, worldSpeed) ==
  IF o.type = 0 THEN o.speed = worldSpeed
  ELSE IF o.type = 1
  THEN worldSpeed % 20 = 0 /\ o.speed % 27 = 0 /\ o.speed \div 27 = worldSpeed \div 20
  ELSE worldSpeed % 10 = 0 /\ o.speed % 11 = 0 /\ o.speed \div 11 = worldSpeed \div 10

\* C17: an obstacle's speed is the worldSpeed of the tick that spawned it times
\* its kind's multiplier and is positive; every active tick moves each stored
\* obstacle left by exactly its own speed * 3.2, the new one included, and
\* changes nothing else of it; no other step changes a stored obstacle.
C17_SpeedFixedAtSpawn ==
  /\ [](\A i \in 1..obsCount : obs[i].speed > 0)
  /\ [][(Active /\ frames' = frames + 1) =>
          /\ \A i \in 1..obsCount :
               preCull'[i] = [obs[i] EXCEPT !.x = obs[i].x - obs[i].speed]
          /\ Len(preCull') > obsCount =>
               LET n == preCull'[obsCount + 1]
               IN  /\ SpeedOfKind(n, WorldSpeed(difficulty'))
                   /\ \E j \in 0..119 : n.x = (W + 40 + j) * XU - n.speed
          /\ \A j \in 1..obsCount' : \E i \in 1..Len(preCull') : obs'[j] = preCull'[i]]_vars
  /\ [][frames' = frames => (obs' = obs \/ obs' = <<>>)]_vars

\* an older, slower obstacle next to a newer, faster one of the same kind
C17_Witness ==
  /\ Active /\ obsCount >= 2
  /\ obs[1].type = obs[2].type
  /\ obs[1].speed < obs[2].speed
  /\ obs[2].speed < WorldSpeed(difficulty)


\* C18: with frames that keep coming and frames with elapsed time recurring,
\* an Active session eventually is Crashed or Completed; every active tick
\* with elapsed time takes at least 120 km per elapsed second off the
\* remaining distance, or completes the flight.
C18_SessionEnds ==
  /\ Active ~> (gameOver \/ victory)
  /\ [][(Active /\ difficulty' > difficulty) =>
          \/ victory'
          \/ kmLeft - kmLeft' >= 120 * ((difficulty' - difficulty) \div 45)]_vars

\* Completed with no crash, with obstacles still in the store
C18_Witness ==
  /\ victory /\ ~gameOver
  /\ obsCount >= 1


\* C19: once a Quit event has been polled, running stays false whatever else
\* is polled, the frame under way is finished, and after it the loop has
\* exited: no further event or frame is processed. The loop exits for no
\* other reason.
C19_QuitExitsLoop ==
  /\ [](pc = "done" => ~running)
  /\ [][~running => ~running']_vars
  /\ [][(~running /\ frames' = frames + 1) => pc' = "done"]_vars
  /\ [][pc = "poll"]_vars

\* the loop has exited on a Quit polled in a session that is not Active
C19_Witness == pc = "done" /\ last = "frozen"


\* C20: the store never fills. The obstacle count stays below 100, every
\* spawn that falls due finds the count below 128 and adds its obstacle, and
\* every stored obstacle moves at 4.2 * 3.2 or more per tick from x = 1119 at
\* most, is at most 169 wide, and is gone once its right edge is at -10.
C20_StoreNeverFills ==
  /\ [](obsCount < 100)
  /\ [](\A i \in 1..obsCount :
          /\ obs[i].speed >= 13440000
          /\ obs[i].x <= 1119 * XU - obs[i].speed
          /\ obs[i].w <= 169 * XU
          /\ obs[i].x + obs[i].w > -10 * XU)
  /\ [][(Active /\ frames' = frames + 1 /\ spawnTimer' = 0) =>
          /\ obsCount < OBS_CAP
          /\ Len(preCull') = obsCount + 1]_vars

\* a spawn on every tick for long enough that obstacles have been culled
C20_Witness == obsCount >= 40 /\ frames > obsCount

====
